---- MODULE Spec2Model ----
(***************************************************************************)
(* Model of the semantic graph engine of the sitemap tools:                *)
(*   - the graph.json builder of scripts/sitemap-to-mermaid.ts, and        *)
(*   - the Thought Map explorer emitted by scripts/build-sitemap-viewer.ts *)
(*     (graph import, bfsUndirectedWithDepth).                             *)
(*                                                                         *)
(* Strings are modelled as sequences of tokens: a token is a maximal piece *)
(* of text the code never looks inside ("blog", "ex.com", "2024"), and the *)
(* separators the code's regular expressions and URL parsing look for      *)
(* ("/", " ", "https:") are tokens of their own.  String concatenation is  *)
(* \o.  hash8 is an FNV-1a digest of the whole string; it is modelled as   *)
(* collision free on the bounded universe of strings used here.            *)
(***************************************************************************)
EXTENDS Integers, Sequences, FiniteSets, TLC

\* ------------------------------------------------------------------------
\* Bounds of the model
\* ------------------------------------------------------------------------
MaxEntries == 3
MaxImagesBound == 2
MaxDepthBound == 3
MaxSiteEntries == 2
MaxViewDepth == 4
MaxActivations == 2

\* ------------------------------------------------------------------------
\* Program constants
\* ------------------------------------------------------------------------
GROUP_DEPTH == 1

\* applyDepthScaling; RATIO is 0.84 = RATIO_NUM / RATIO_DEN
BASE == 80
MIN == 26
BASE_FONT == 12
MIN_FONT == 8
RATIO_NUM == 21
RATIO_DEN == 25
OUTSIDE_SIZE == 46
OUTSIDE_FONT == 9

\* layoutSource, initThought
PLAIN_SIZE == 54
PLAIN_FONT == 10

\* ------------------------------------------------------------------------
\* The bounded universe of strings
\* ------------------------------------------------------------------------
\* Tokens in the order String.prototype.localeCompare / Array.prototype.sort
\* put them (punctuation, digits, letters).
Alphabet ==
  << " ", "(root)", "/", "01", "15", "2024", "a.jpg", "b.jpg", "blog",
     "c.jpg", "category", "cdn.ex.com", "docs", "ex.com", "example.com", "http:",
     "https:", "img.ex.net", "item", "liquid-drop", "news", "not", "shop",
     "site", "url" >>

Digits4 == {"2024"}
Digits2 == {"01", "15"}

U_post == <<"https:", "/", "/", "ex.com", "/", "blog", "/", "2024", "/", "01", "/", "15", "/", "liquid-drop", "/">>
U_cat  == <<"https:", "/", "/", "ex.com", "/", "blog", "/", "category", "/", "news", "/">>
U_shop == <<"https:", "/", "/", "ex.com", "/", "shop", "/", "item">>
U_home == <<"https:", "/", "/", "ex.com", "/">>
U_bad  == <<"not", " ", "url">>
U_drop == <<"https:", "/", "/", "ex.com", "/", "blog", "/", "2024", "/", "01", "/", "liquid-drop", "/">>
U_docs == <<"https:", "/", "/", "cdn.ex.com", "/", "docs">>
U_dated == <<"https:", "/", "/", "ex.com", "/", "blog", "/", "date:-x">>

IMG_a == <<"https:", "/", "/", "cdn.ex.com", "/", "a.jpg">>
IMG_b == <<"https:", "/", "/", "cdn.ex.com", "/", "b.jpg">>
IMG_c == <<"https:", "/", "/", "img.ex.net", "/", "c.jpg">>
IMG_s == <<"https:", "/", "/", "ex.com", "/", "a.jpg">>
IMG_bad == <<"a.jpg">>

\* The entries a sitemap of the universe can contain.  extractImages removes
\* repeated image URLs inside one <url> block, so no list repeats an image.
EntryUniverse ==
  { [loc |-> U_post, images |-> <<IMG_a, IMG_c, IMG_b>>],
    [loc |-> U_post, images |-> <<IMG_c>>],
    [loc |-> U_cat,  images |-> <<IMG_a, IMG_b>>],
    [loc |-> U_shop, images |-> <<IMG_s, IMG_bad>>],
    [loc |-> U_home, images |-> << >>],
    [loc |-> U_bad,  images |-> <<IMG_b>>] }

\* The entries of the sitemaps whose graph is built and then explored
SiteUniverse ==
  { [loc |-> U_drop, images |-> <<IMG_a>>],
    [loc |-> U_post, images |-> <<IMG_a, IMG_c, IMG_b>>],
    [loc |-> U_cat,  images |-> <<IMG_a, IMG_b>>],
    [loc |-> U_shop, images |-> <<IMG_s, IMG_bad>>] }

\* The entries of the sitemaps with a page whose last path segment reads as
\* a group label once its hyphens are spaces
TitleUniverse ==
  { [loc |-> U_dated, images |-> <<IMG_a>>],
    [loc |-> U_post,  images |-> <<IMG_c>>],
    [loc |-> U_shop,  images |-> << >>] }

\* The entries of the sitemaps that are built in one order and then in
\* another: pages on two hosts, and a <loc> that is not a URL
OrderUniverse ==
  { [loc |-> U_shop, images |-> <<IMG_s, IMG_bad>>],
    [loc |-> U_docs, images |-> <<IMG_a>>],
    [loc |-> U_post, images |-> <<IMG_a, IMG_c, IMG_b>>],
    [loc |-> U_bad,  images |-> <<IMG_b>>] }

\* ------------------------------------------------------------------------
\* Sequence helpers
\* ------------------------------------------------------------------------
Range(s) == { s[k] : k \in DOMAIN s }

\* Array.prototype.slice(0, n)
Slice0(s, n) ==
  IF n >= 0
    THEN SubSeq(s, 1, IF n < Len(s) THEN n ELSE Len(s))
    ELSE SubSeq(s, 1, IF Len(s) + n > 0 THEN Len(s) + n ELSE 0)

\* Array.prototype.slice(n)
SliceFrom(s, n) == SubSeq(s, n + 1, Len(s))

Ord(tok) == CHOOSE k \in DOMAIN Alphabet : Alphabet[k] = tok

\* a < b in the order of the strings the token sequences stand for
RECURSIVE StrLess(_, _)
StrLess(a, b) ==
  IF a = << >> THEN b # << >>
  ELSE IF b = << >> THEN FALSE
  ELSE IF Head(a) = Head(b) THEN StrLess(Tail(a), Tail(b))
  ELSE Ord(Head(a)) < Ord(Head(b))

\* Array.from(set).sort(): the elements of a set of strings in ascending order
RECURSIVE SortStrings(_)
SortStrings(S) ==
  IF S = {} THEN << >>
  ELSE LET m == CHOOSE x \in S : \A y \in S \ {x} : StrLess(x, y)
       IN <<m>> \o SortStrings(S \ {m})

\* s.join("/")
RECURSIVE JoinSlash(_)
JoinSlash(parts) ==
  IF parts = << >> THEN << >>
  ELSE IF Len(parts) = 1 THEN <<parts[1]>>
  ELSE <<parts[1], "/">> \o JoinSlash(Tail(parts))

\* does the string contain the consecutive tokens pat
Includes(s, pat) ==
  \E k \in 1..(Len(s) - Len(pat) + 1) : SubSeq(s, k, k + Len(pat) - 1) = pat

\* ------------------------------------------------------------------------
\* URL classifier (scripts/sitemap-to-mermaid.ts)
\* ------------------------------------------------------------------------
UNDEFINED == << >>

\* new URL(u) succeeds
IsUrl(u) ==
  /\ Len(u) >= 4
  /\ u[1] \in {"https:", "http:"}
  /\ u[2] = "/"
  /\ u[3] = "/"
  /\ u[4] \notin {"/", " "}

\* new URL(u).host
UrlHost(u) == u[4]

\* new URL(u).pathname
UrlPathname(u) == IF Len(u) > 4 THEN SubSeq(u, 5, Len(u)) ELSE <<"/">>

NotSlash(tok) == tok # "/"

\* s.replace(/-/g, " ") on one token
HyphenToSpace(tok) ==
  CASE tok = "liquid-drop" -> <<"liquid", " ", "drop">>
    [] tok = "date:-x" -> <<"date:", " ", "x">>
    [] OTHER -> <<tok>>

\* s.replace(/-/g, " ")
RECURSIVE ReplaceHyphens(_)
ReplaceHyphens(s) ==
  IF s = << >> THEN << >> ELSE HyphenToSpace(Head(s)) \o ReplaceHyphens(Tail(s))

\* decodeURIComponent on one path segment: the tokens of the decoded text
DecodeURIComponent(tok) ==
  CASE tok = "a%20b" -> <<"a", " ", "b">>
    [] OTHER -> <<tok>>

\* the catch branch gives the title of an empty path
titleFromUrl_homeOnFailure(u) ==
  IF ~IsUrl(u) THEN <<"Home">>
  ELSE LET parts == SelectSeq(UrlPathname(u), NotSlash)
       IN IF parts = << >> THEN <<"Home">>
          ELSE ReplaceHyphens(DecodeURIComponent(parts[Len(parts)]))

titleFromUrl(u) ==
  IF ~IsUrl(u) THEN u
  ELSE LET parts == SelectSeq(UrlPathname(u), NotSlash)
       IN IF parts = << >> THEN <<"Home">>
          ELSE ReplaceHyphens(DecodeURIComponent(parts[Len(parts)]))

pathParts(u) == IF IsUrl(u) THEN SelectSeq(UrlPathname(u), NotSlash) ELSE << >>

groupKey(u, depth) ==
  LET parts == pathParts(u)
  IN IF Len(parts) = 0 THEN <<"(root)">>
     ELSE JoinSlash(Slice0(parts, IF depth < Len(parts) THEN depth ELSE Len(parts)))

\* positions where /\/category\/([^\/]+)\/?/ matches
CategoryAt(url) ==
  { k \in 1..(Len(url) - 3) :
      /\ url[k] = "/"
      /\ url[k + 1] = "category"
      /\ url[k + 2] = "/"
      /\ url[k + 3] # "/" }

\* positions where /\/(\d{4})\/(\d{2})\/(\d{2})\// matches
DateAt(url) ==
  { k \in 1..(Len(url) - 6) :
      /\ url[k] = "/"
      /\ url[k + 1] \in Digits4
      /\ url[k + 2] = "/"
      /\ url[k + 3] \in Digits2
      /\ url[k + 4] = "/"
      /\ url[k + 5] \in Digits2
      /\ url[k + 6] = "/" }

First(S) == CHOOSE k \in S : \A j \in S : k <= j

extractMetadata(url) ==
  LET cm == CategoryAt(url)
      dm == DateAt(url)
      t1 == IF Includes(url, <<"/", "blog", "/">>) THEN "post" ELSE "page"
      t2 == IF Includes(url, <<"/", "product", "/">>) THEN "product" ELSE t1
      t3 == IF Includes(url, <<"/", "events", "/">>) THEN "event" ELSE t2
      t4 == IF Includes(url, <<"/", "shop", "/">>) THEN "product" ELSE t3
  IN [ category  |-> IF cm = {} THEN UNDEFINED ELSE HyphenToSpace(url[First(cm) + 3]),
       date      |-> IF dm = {} THEN UNDEFINED
                     ELSE SubSeq(url, First(dm) + 1, First(dm) + 5),
       dateYear  |-> IF dm = {} THEN UNDEFINED ELSE <<url[First(dm) + 1]>>,
       dateMonth |-> IF dm = {} THEN UNDEFINED ELSE <<url[First(dm) + 3]>>,
       postType  |-> <<t4>> ]

\* ------------------------------------------------------------------------
\* Identifier assigner
\* ------------------------------------------------------------------------
\* The 32-bit FNV-1a digest of s, rendered in hexadecimal
hash8(s) == [digest |-> s]

\* "n_" + sanitised s + "_" + hash8(s); an identifier is the record of the
\* literal prefix put before it, the hashed string, and the image suffix
\* put after it (0: none)
safeId(s) == [pfx |-> "", key |-> hash8(s).digest, img |-> 0]

\* `${prefix}${id}`
WithPrefix(prefix, id) == [id EXCEPT !.pfx = prefix]

\* `${pageId}_img_${k}`
ImgId(pageId, k) == [pageId EXCEPT !.img = k]

\* the literal id 'site'
SiteId == [pfx |-> "site", key |-> << >>, img |-> 0]

\* ------------------------------------------------------------------------
\* State
\* ------------------------------------------------------------------------
\* --- the builder script ---
VARIABLES
  entries,      \* the Entry list parsed from the sitemap XML
  maxImages,    \* MAX_IMAGES (--max-images)
  pc,           \* position of the builder script
  cursor,       \* index of the entry the current loop is at
  nodes,        \* graph.json node list under construction
  edges,        \* graph.json edge list under construction
  nodeIds,      \* ids of the nodes already added
  categories,   \* distinct category keys collected
  dates,        \* distinct date keys collected
  assetHosts,   \* distinct external image hosts collected
  assetsMap,    \* assets.json: canonical URL -> image list
  graphJson,    \* the graph.json document written
  run,          \* which run of the script on this input (1 or 2)
  firstGraph    \* the graph.json document the first run wrote

bvars == << entries, maxImages, pc, cursor, nodes, edges, nodeIds, categories,
            dates, assetHosts, assetsMap, graphJson, run, firstGraph >>

\* --- the Thought Map explorer ---
VARIABLES
  graphDoc,     \* the graph.json document the explorer fetches
  cy,           \* the explorer's graph instance: nodes and edges after import
  xpc,          \* position of the explorer
  rootId,       \* root of the current extraction request
  maxDepth,     \* depth bound of the current extraction request
  keep,         \* bfsUndirectedWithDepth: ids kept so far
  depthMap,     \* bfsUndirectedWithDepth: id -> depth
  frontier,     \* bfsUndirectedWithDepth: ids of the current layer
  next,         \* bfsUndirectedWithDepth: ids of the next layer
  d,            \* bfsUndirectedWithDepth: loop counter
  pos,          \* index in frontier of the id to expand next
  setCount,     \* history: id -> number of depthMap.set calls for it
  expandCount   \* history: id -> number of times its edges were walked

\* the display state of the explorer
VARIABLES
  focusOnly,    \* layoutFeatures: the value read from the "focus only" checkbox
  hiddenEl,     \* the elements carrying the class hiddenEl
  dim,          \* the elements carrying the class dim
  size,         \* node id -> data("size")
  fsize,        \* node id -> data("fsize")
  found         \* history: the marks the request being served found

dvars == << focusOnly, hiddenEl, dim, size, fsize, found >>

\* the initialisation of the Thought Map
VARIABLES
  rootOptions,  \* the options of the "Features root" selector, in order
  created,      \* history: number of graph instances created
  populated,    \* history: number of calls of populateFeatureRoots
  inits         \* activation -> position of the initThought call it made

ivars == << rootOptions, created, populated, inits >>

xvars == << graphDoc, cy, xpc, rootId, maxDepth, keep, depthMap, frontier, next,
            d, pos, setCount, expandCount, dvars, ivars >>

vars == << bvars, xvars >>

EmptyGraph == [nodes |-> << >>, edges |-> << >>]

\* ------------------------------------------------------------------------
\* Graph builder (scripts/sitemap-to-mermaid.ts)
\* ------------------------------------------------------------------------
Node(id, label, kind, url, img, section, category, date, postType) ==
  [ id |-> id, label |-> label, kind |-> kind, url |-> url, img |-> img,
    section |-> section, category |-> category, date |-> date,
    postType |-> postType ]

\* the arrays the builder appends to
Building == [nodes |-> nodes, edges |-> edges, nodeIds |-> nodeIds]

addNode_noDedup(B, data) ==
  [B EXCEPT !.nodes = Append(@, data), !.nodeIds = @ \cup {data.id}]

addNode(B, data) ==
  IF data.id \notin B.nodeIds
    THEN [B EXCEPT !.nodes = Append(@, data), !.nodeIds = @ \cup {data.id}]
    ELSE B

\* the edge record addEdge pushes; its id is `e_${kind}_${hash8(source)}_${hash8(target)}`
Edge(source, target, kind) ==
  [ id |-> [kind |-> kind, hs |-> hash8(source), ht |-> hash8(target)],
    source |-> source, target |-> target, kind |-> kind ]

addEdge(B, source, target, kind) ==
  [B EXCEPT !.edges = Append(@, Edge(source, target, kind))]

siteHost ==
  IF entries = << >> THEN "example.com"
  ELSE IF IsUrl(entries[1].loc) THEN UrlHost(entries[1].loc)
  ELSE "site"

sortedGroupKeys_parsedOnly ==
  SortStrings({ groupKey(entries[k].loc, GROUP_DEPTH) :
                  k \in { j \in DOMAIN entries : IsUrl(entries[j].loc) } })

sortedGroupKeys ==
  SortStrings({ groupKey(entries[k].loc, GROUP_DEPTH) : k \in DOMAIN entries })

\* for (const e of entries) assetsMap[e.loc] = e.images;
RECURSIVE AssetsOf(_, _)
AssetsOf(es, m) ==
  IF es = << >> THEN m
  ELSE LET e == Head(es)
       IN AssetsOf(Tail(es),
            [u \in (DOMAIN m) \cup {e.loc} |-> IF u = e.loc THEN e.images ELSE m[u]])

\* the loop "2. Create section nodes" over the keys ks
RECURSIVE SectionNodes(_, _)
SectionNodes(B, ks) ==
  IF ks = << >> THEN B
  ELSE LET key == Head(ks)
           sectionId == WithPrefix("sec_", safeId(key))
           B1 == addNode(B, Node(sectionId, key, "section", UNDEFINED, UNDEFINED,
                                 UNDEFINED, UNDEFINED, UNDEFINED, UNDEFINED))
           B2 == addEdge(B1, SiteId, sectionId, "contains")
       IN SectionNodes(B2, Tail(ks))

\* one loop of "4. Create grouping dimension nodes" over the keys ks
RECURSIVE GroupNodes(_, _, _, _, _)
GroupNodes(B, ks, prefix, labelTag, kind) ==
  IF ks = << >> THEN B
  ELSE LET key == Head(ks)
           B1 == addNode(B, Node(WithPrefix(prefix, safeId(key)),
                                 labelTag \o <<" ">> \o key, kind, UNDEFINED,
                                 UNDEFINED, UNDEFINED, UNDEFINED, UNDEFINED, UNDEFINED))
       IN GroupNodes(B1, Tail(ks), prefix, labelTag, kind)

ExternalHosts_firstOnly(imgs) ==
  { <<UrlHost(imgs[k])>> : k \in { j \in DOMAIN imgs :
        j = 1 /\ IsUrl(imgs[j]) /\ UrlHost(imgs[j]) # siteHost } }

\* external hosts of the images imgs: new URL(img).host !== siteHost
ExternalHosts(imgs) ==
  { <<UrlHost(imgs[k])>> : k \in { j \in DOMAIN imgs :
        IsUrl(imgs[j]) /\ UrlHost(imgs[j]) # siteHost } }

NumTok(k) == <<"1", "2", "3", "4", "5", "6">>[k]

\* the loop "Image nodes" of one page over imgs, the next index being k
RECURSIVE ImageNodes(_, _, _, _, _)
ImageNodes(B, imgs, k, pageId, section) ==
  IF imgs = << >> THEN B
  ELSE LET img == Head(imgs)
           imgId == ImgId(pageId, k)
           B1 == addNode(B, Node(imgId, <<"img", " ", NumTok(k)>>, "image", img, img,
                                 section, UNDEFINED, UNDEFINED, UNDEFINED))
           B2 == addEdge(B1, pageId, imgId, "asset")
           B3 == IF IsUrl(img) /\ UrlHost(img) # siteHost
                   THEN addEdge(B2, WithPrefix("assethost_", safeId(<<UrlHost(img)>>)),
                                pageId, "related")
                   ELSE B2
       IN ImageNodes(B3, Tail(imgs), k + 1, pageId, section)

\* one iteration of "5. Create page and image nodes with metadata"
PageNodes(B, e) ==
  LET metadata == extractMetadata(e.loc)
      section == groupKey(e.loc, GROUP_DEPTH)
      pageId == safeId(e.loc)
      B1 == addNode(B, Node(pageId, titleFromUrl(e.loc), "page", e.loc, UNDEFINED,
                            section, metadata.category, metadata.date,
                            metadata.postType))
      B2 == addEdge(B1, WithPrefix("sec_", safeId(section)), pageId, "page")
      B3 == addEdge(B2, WithPrefix("type_", safeId(section)), pageId, "member")
      B4 == IF metadata.category # UNDEFINED
              THEN addEdge(B3, WithPrefix("cat_", safeId(metadata.category)),
                           pageId, "member")
              ELSE B3
      B5 == IF metadata.dateYear # UNDEFINED /\ metadata.dateMonth # UNDEFINED
              THEN addEdge(B4, WithPrefix("date_",
                             safeId(metadata.dateYear \o <<"/">> \o metadata.dateMonth)),
                           pageId, "member")
              ELSE B4
  IN ImageNodes(B5, Slice0(e.images, maxImages), 1, pageId, section)

Store(B) ==
  /\ nodes' = B.nodes
  /\ edges' = B.edges
  /\ nodeIds' = B.nodeIds

\* where the script is after a loop over the entries that starts at pc
LoopOrSkip(loopPc, afterPc) == IF entries = << >> THEN afterPc ELSE loopPc

\* ------------------------------------------------------------------------
\* The builder script, step by step
\* ------------------------------------------------------------------------
RECURSIVE SeqsUpTo(_, _)
SeqsUpTo(S, n) ==
  IF n = 0 THEN { << >> }
  ELSE LET shorter == SeqsUpTo(S, n - 1)
       IN shorter \cup { Append(q, x) : q \in { r \in shorter : Len(r) = n - 1 }, x \in S }

NoAssets == [u \in {} |-> << >>]

BuilderInit ==
  /\ entries \in SeqsUpTo(EntryUniverse, MaxEntries)
  /\ maxImages \in (0 - 1)..MaxImagesBound
  /\ pc = "assets"
  /\ cursor = 1
  /\ nodes = << >>
  /\ edges = << >>
  /\ nodeIds = {}
  /\ categories = {}
  /\ dates = {}
  /\ assetHosts = {}
  /\ assetsMap = NoAssets
  /\ graphJson = EmptyGraph
  /\ run = 1
  /\ firstGraph = EmptyGraph

\* "Write assets map"
WriteAssets ==
  /\ pc = "assets"
  /\ assetsMap' = AssetsOf(entries, NoAssets)
  /\ pc' = "site"
  /\ UNCHANGED << entries, maxImages, cursor, nodes, edges, nodeIds, categories,
                  dates, assetHosts, graphJson, run, firstGraph >>
  /\ UNCHANGED xvars

\* "1. Create site root"
CreateSite ==
  /\ pc = "site"
  /\ Store(addNode(Building,
        Node(SiteId, <<siteHost>>, "site", <<"https:", "/", "/", siteHost>>,
             UNDEFINED, UNDEFINED, UNDEFINED, UNDEFINED, UNDEFINED)))
  /\ pc' = "sections"
  /\ UNCHANGED << entries, maxImages, cursor, categories, dates, assetHosts,
                  assetsMap, graphJson, run, firstGraph >>
  /\ UNCHANGED xvars

\* "2. Create section nodes"
CreateSections ==
  /\ pc = "sections"
  /\ Store(SectionNodes(Building, sortedGroupKeys))
  /\ pc' = LoopOrSkip("collect", "types")
  /\ cursor' = 1
  /\ UNCHANGED << entries, maxImages, categories, dates, assetHosts, assetsMap,
                  graphJson, run, firstGraph >>
  /\ UNCHANGED xvars

\* one iteration of "3. Collect unique categories, dates, asset hosts"
Collect ==
  /\ pc = "collect"
  /\ LET e == entries[cursor]
         metadata == extractMetadata(e.loc)
     IN /\ categories' = IF metadata.category # UNDEFINED
                           THEN categories \cup {metadata.category}
                           ELSE categories
        /\ dates' = IF metadata.dateYear # UNDEFINED /\ metadata.dateMonth # UNDEFINED
                      THEN dates \cup {metadata.dateYear \o <<"/">> \o metadata.dateMonth}
                      ELSE dates
        /\ assetHosts' = assetHosts \cup ExternalHosts(e.images)
  /\ IF cursor < Len(entries)
       THEN cursor' = cursor + 1 /\ pc' = pc
       ELSE cursor' = 1 /\ pc' = "types"
  /\ UNCHANGED << entries, maxImages, nodes, edges, nodeIds, assetsMap, graphJson,
                  run, firstGraph >>
  /\ UNCHANGED xvars

\* "4. Create grouping dimension nodes": type nodes
CreateTypeNodes ==
  /\ pc = "types"
  /\ Store(GroupNodes(Building, sortedGroupKeys, "type_", <<"type:">>, "type"))
  /\ pc' = "cats"
  /\ UNCHANGED << entries, maxImages, cursor, categories, dates, assetHosts,
                  assetsMap, graphJson, run, firstGraph >>
  /\ UNCHANGED xvars

\* category nodes
CreateCategoryNodes ==
  /\ pc = "cats"
  /\ Store(GroupNodes(Building, SortStrings(categories), "cat_", <<"category:">>,
                      "category"))
  /\ pc' = "dates"
  /\ UNCHANGED << entries, maxImages, cursor, categories, dates, assetHosts,
                  assetsMap, graphJson, run, firstGraph >>
  /\ UNCHANGED xvars

\* date nodes
CreateDateNodes ==
  /\ pc = "dates"
  /\ Store(GroupNodes(Building, SortStrings(dates), "date_", <<"date:">>, "date"))
  /\ pc' = "hosts"
  /\ UNCHANGED << entries, maxImages, cursor, categories, dates, assetHosts,
                  assetsMap, graphJson, run, firstGraph >>
  /\ UNCHANGED xvars

\* asset host nodes
CreateAssetHostNodes ==
  /\ pc = "hosts"
  /\ Store(GroupNodes(Building, SortStrings(assetHosts), "assethost_",
                      <<"asset", " ", "host:">>, "asset_host"))
  /\ pc' = LoopOrSkip("pages", "write")
  /\ cursor' = 1
  /\ UNCHANGED << entries, maxImages, categories, dates, assetHosts, assetsMap,
                  graphJson, run, firstGraph >>
  /\ UNCHANGED xvars

\* one iteration of "5. Create page and image nodes with metadata"
CreatePage ==
  /\ pc = "pages"
  /\ Store(PageNodes(Building, entries[cursor]))
  /\ IF cursor < Len(entries)
       THEN cursor' = cursor + 1 /\ pc' = pc
       ELSE cursor' = 1 /\ pc' = "write"
  /\ UNCHANGED << entries, maxImages, categories, dates, assetHosts, assetsMap,
                  graphJson, run, firstGraph >>
  /\ UNCHANGED xvars

\* "Write graph.json"
WriteGraph ==
  /\ pc = "write"
  /\ graphJson' = [nodes |-> nodes, edges |-> edges]
  /\ pc' = "done"
  /\ UNCHANGED << entries, maxImages, cursor, nodes, edges, nodeIds, categories,
                  dates, assetHosts, assetsMap, run, firstGraph >>
  /\ UNCHANGED xvars

\* the script is run a second time on the same input: a new process, whose
\* module-level arrays and sets start empty
Rerun_keepNodeIds ==
  /\ pc = "done"
  /\ run = 1
  /\ firstGraph' = graphJson
  /\ run' = 2
  /\ pc' = "assets"
  /\ cursor' = 1
  /\ nodes' = << >>
  /\ edges' = << >>
  /\ categories' = {}
  /\ dates' = {}
  /\ assetHosts' = {}
  /\ assetsMap' = NoAssets
  /\ graphJson' = EmptyGraph
  /\ UNCHANGED << entries, maxImages, nodeIds >>
  /\ UNCHANGED xvars

Rerun ==
  /\ pc = "done"
  /\ run = 1
  /\ firstGraph' = graphJson
  /\ run' = 2
  /\ pc' = "assets"
  /\ cursor' = 1
  /\ nodes' = << >>
  /\ edges' = << >>
  /\ nodeIds' = {}
  /\ categories' = {}
  /\ dates' = {}
  /\ assetHosts' = {}
  /\ assetsMap' = NoAssets
  /\ graphJson' = EmptyGraph
  /\ UNCHANGED << entries, maxImages >>
  /\ UNCHANGED xvars

\* the script is run on a sitemap that lists the same <url> blocks in another
\* order: a new process on the reordered entry list
Reorder ==
  /\ pc = "done"
  /\ run = 1
  /\ \E p \in Permutations(DOMAIN entries) :
       /\ \E k \in DOMAIN entries : p[k] # k
       /\ entries' = [k \in DOMAIN entries |-> entries[p[k]]]
  /\ firstGraph' = graphJson
  /\ run' = 2
  /\ pc' = "assets"
  /\ cursor' = 1
  /\ nodes' = << >>
  /\ edges' = << >>
  /\ nodeIds' = {}
  /\ categories' = {}
  /\ dates' = {}
  /\ assetHosts' = {}
  /\ assetsMap' = NoAssets
  /\ graphJson' = EmptyGraph
  /\ UNCHANGED maxImages
  /\ UNCHANGED xvars

\* ------------------------------------------------------------------------
\* Thought Map explorer (scripts/build-sitemap-viewer.ts): graph import
\* ------------------------------------------------------------------------
IsSpace(tok) == tok \in {" "}

\* String.prototype.toLowerCase on one token (the /i flag of the pattern)
LowerCase(tok) ==
  CASE tok = "Type:" -> "type:"
    [] tok = "Date:" -> "date:"
    [] OTHER -> tok

\* String.prototype.trim
RECURSIVE TrimStart(_)
TrimStart(label) ==
  IF label # << >> /\ IsSpace(Head(label)) THEN TrimStart(Tail(label)) ELSE label

RECURSIVE TrimEnd(_)
TrimEnd(label) ==
  IF label # << >> /\ IsSpace(label[Len(label)])
    THEN TrimEnd(SubSeq(label, 1, Len(label) - 1))
    ELSE label

Trim(label) == TrimEnd(TrimStart(label))

\* the pattern without its last alternative
PLACEHOLDER_LABEL_RE_noCategory(label) ==
  \/ /\ Len(label) >= 2
     /\ LowerCase(label[1]) \in {"type:", "date:"}
     /\ IsSpace(label[2])
  \/ /\ Len(label) >= 4
     /\ LowerCase(label[1]) = "asset"
     /\ label[2] = " "
     /\ LowerCase(label[3]) = "host:"
     /\ IsSpace(label[4])

\* PLACEHOLDER_LABEL_RE.test(label):
\* /^(type:\s|date:\s|asset host:\s|category:\s)/i
PLACEHOLDER_LABEL_RE(label) ==
  \/ /\ Len(label) >= 2
     /\ LowerCase(label[1]) \in {"type:", "date:", "category:"}
     /\ IsSpace(label[2])
  \/ /\ Len(label) >= 4
     /\ LowerCase(label[1]) = "asset"
     /\ label[2] = " "
     /\ LowerCase(label[3]) = "host:"
     /\ IsSpace(label[4])

\* initThought: "Filter out placeholder nodes/edges"
ImportNodes(doc) ==
  LET Kept(n) == ~PLACEHOLDER_LABEL_RE(Trim(n.label))
  IN SelectSeq(doc.nodes, Kept)

\* only the target of an edge is looked up
ImportEdges_targetOnly(doc) ==
  LET nodeSet == { ImportNodes(doc)[k].id : k \in DOMAIN ImportNodes(doc) }
      Kept(e) == e.target \in nodeSet
  IN SelectSeq(doc.edges, Kept)

ImportEdges(doc) ==
  LET nodeSet == { ImportNodes(doc)[k].id : k \in DOMAIN ImportNodes(doc) }
      Kept(e) == e.source \in nodeSet /\ e.target \in nodeSet
  IN SelectSeq(doc.edges, Kept)

CyIds == { cy.nodes[k].id : k \in DOMAIN cy.nodes }

\* cy.getElementById(id), for an id of the graph
CyNode(id) == cy.nodes[CHOOSE k \in DOMAIN cy.nodes : cy.nodes[k].id = id]

isPlaceholderNode(n) == PLACEHOLDER_LABEL_RE(n.label)

\* String(cy.getElementById(id).data("kind") || "")
KindOf(id) == IF id \in CyIds THEN CyNode(id).kind ELSE ""

\* ------------------------------------------------------------------------
\* Subgraph extractor: bfsUndirectedWithDepth
\* ------------------------------------------------------------------------
\* n.connectedEdges(): the edges of the graph with an end at id, in order
ConnectedEdges(id) ==
  LET Touches(e) == e.source = id \/ e.target = id
  IN SelectSeq(cy.edges, Touches)

Bump(f, id) == [x \in (DOMAIN f) \cup {id} |-> IF x = id THEN (IF x \in DOMAIN f THEN f[x] ELSE 0) + 1 ELSE f[x]]

\* depthMap.set(id, v)
MapSet(m, id, v) == [x \in (DOMAIN m) \cup {id} |-> IF x = id THEN v ELSE m[x]]

VisitEdge_noPlaceholderTest(st, id, e) ==
  LET otherId == IF e.source = id THEN e.target ELSE e.source
  IN IF otherId \notin CyIds THEN st
     ELSE IF KindOf(rootId) = "section" /\ KindOf(otherId) = "site" THEN st
     ELSE IF /\ KindOf(id) = "section"
             /\ KindOf(otherId) = "section"
             /\ otherId # rootId THEN st
     ELSE IF otherId \notin st.keep
       THEN [ keep     |-> st.keep \cup {otherId},
              depthMap |-> MapSet(st.depthMap, otherId,
                                  (IF id \in DOMAIN st.depthMap
                                     THEN st.depthMap[id] ELSE 0) + 1),
              next     |-> Append(st.next, otherId),
              setCount |-> Bump(st.setCount, otherId) ]
       ELSE st

VisitEdge_noSiteRule(st, id, e) ==
  LET otherId == IF e.source = id THEN e.target ELSE e.source
  IN IF otherId \notin CyIds THEN st
     ELSE IF isPlaceholderNode(CyNode(otherId)) THEN st
     ELSE IF /\ KindOf(id) = "section"
             /\ KindOf(otherId) = "section"
             /\ otherId # rootId THEN st
     ELSE IF otherId \notin st.keep
       THEN [ keep     |-> st.keep \cup {otherId},
              depthMap |-> MapSet(st.depthMap, otherId,
                                  (IF id \in DOMAIN st.depthMap
                                     THEN st.depthMap[id] ELSE 0) + 1),
              next     |-> Append(st.next, otherId),
              setCount |-> Bump(st.setCount, otherId) ]
       ELSE st

VisitEdge_noVisitedTest(st, id, e) ==
  LET otherId == IF e.source = id THEN e.target ELSE e.source
  IN IF otherId \notin CyIds THEN st
     ELSE IF isPlaceholderNode(CyNode(otherId)) THEN st
     ELSE IF KindOf(rootId) = "section" /\ KindOf(otherId) = "site" THEN st
     ELSE IF /\ KindOf(id) = "section"
             /\ KindOf(otherId) = "section"
             /\ otherId # rootId THEN st
     ELSE IF TRUE
       THEN [ keep     |-> st.keep \cup {otherId},
              depthMap |-> MapSet(st.depthMap, otherId,
                                  (IF id \in DOMAIN st.depthMap
                                     THEN st.depthMap[id] ELSE 0) + 1),
              next     |-> Append(st.next, otherId),
              setCount |-> Bump(st.setCount, otherId) ]
       ELSE st

\* the body of connectedEdges().forEach for the edge e of the node id;
\* st holds keep, depthMap, next and the history of depthMap.set calls
VisitEdge(st, id, e) ==
  LET otherId == IF e.source = id THEN e.target ELSE e.source
  IN IF otherId \notin CyIds THEN st
     ELSE IF isPlaceholderNode(CyNode(otherId)) THEN st
     ELSE IF KindOf(rootId) = "section" /\ KindOf(otherId) = "site" THEN st
     ELSE IF /\ KindOf(id) = "section"
             /\ KindOf(otherId) = "section"
             /\ otherId # rootId THEN st
     ELSE IF otherId \notin st.keep
       THEN [ keep     |-> st.keep \cup {otherId},
              depthMap |-> MapSet(st.depthMap, otherId,
                                  (IF id \in DOMAIN st.depthMap
                                     THEN st.depthMap[id] ELSE 0) + 1),
              next     |-> Append(st.next, otherId),
              setCount |-> Bump(st.setCount, otherId) ]
       ELSE st

RECURSIVE VisitEdges(_, _, _)
VisitEdges(st, id, es) ==
  IF es = << >> THEN st
  ELSE VisitEdges(VisitEdge(st, id, Head(es)), id, Tail(es))

LoopGoesOn_inclusive(k, depth) == k <= depth

\* for (let d = 0; d < maxDepth; d++): the loop goes on at counter value k
LoopGoesOn(k, depth) == k < depth

\* ------------------------------------------------------------------------
\* The graph.json documents the explorer is run on
\* ------------------------------------------------------------------------
X_blog == WithPrefix("sec_", safeId(<<"blog">>))
X_shop == WithPrefix("sec_", safeId(<<"shop">>))
X_page1 == safeId(U_post)
X_page2 == safeId(U_shop)
X_img == ImgId(X_page1, 1)
X_type == WithPrefix("type_", safeId(<<"blog">>))
X_odd == safeId(U_cat)

Plain(id, label, kind) ==
  Node(id, label, kind, UNDEFINED, UNDEFINED, UNDEFINED, UNDEFINED, UNDEFINED, UNDEFINED)

\* X_type carries a group label and is dropped by the import; the label of
\* X_odd ends in the blank after the colon, so the import (which trims the
\* label) keeps it while isPlaceholderNode (which does not) matches it
DocNodes ==
  << Plain(SiteId, <<"ex.com">>, "site"),
     Plain(X_blog, <<"blog">>, "section"),
     Plain(X_shop, <<"shop">>, "section"),
     Plain(X_page1, <<"liquid", " ", "drop">>, "page"),
     Plain(X_page2, <<"item">>, "page"),
     Plain(X_img, <<"img", " ", "1">>, "image"),
     Plain(X_type, <<"type:", " ", "blog">>, "type"),
     Plain(X_odd, <<"date:", " ">>, "page") >>

\* the edges every document has
DocEdgesFixed ==
  << Edge(X_page1, X_img, "asset"),
     Edge(X_type, X_page1, "member") >>

\* the edges a document may have
DocEdgeCandidates ==
  << Edge(SiteId, X_blog, "contains"),
     Edge(SiteId, X_shop, "contains"),
     Edge(X_blog, X_page1, "page"),
     Edge(X_shop, X_page2, "page"),
     Edge(X_page1, X_page2, "related"),
     Edge(X_blog, X_shop, "contains"),
     Edge(X_blog, X_odd, "page"),
     Edge(X_odd, X_page2, "related") >>

\* the candidates whose index is in S, in order
RECURSIVE PickEdges(_, _)
PickEdges(k, S) ==
  IF k > Len(DocEdgeCandidates) THEN << >>
  ELSE (IF k \in S THEN <<DocEdgeCandidates[k]>> ELSE << >>) \o PickEdges(k + 1, S)

GraphDocs ==
  { [nodes |-> DocNodes, edges |-> PickEdges(1, S) \o DocEdgesFixed] :
      S \in SUBSET (DOMAIN DocEdgeCandidates) }

\* an id no node of the documents has
X_gone == safeId(U_home)

\* the edges every document shown in the views has
ViewEdgesFixed ==
  << Edge(SiteId, X_shop, "contains"),
     Edge(SiteId, X_blog, "contains"),
     Edge(X_blog, X_page1, "page"),
     Edge(X_shop, X_page2, "page"),
     Edge(X_page1, X_img, "asset"),
     Edge(X_type, X_page1, "member") >>

\* the edges such a document may have; the last one names a node that the
\* node list does not hold
ViewEdgeCandidates ==
  << Edge(X_page2, SiteId, "related"),
     Edge(X_blog, X_odd, "page"),
     Edge(X_shop, X_gone, "page") >>

RECURSIVE PickViewEdges(_, _)
PickViewEdges(k, S) ==
  IF k > Len(ViewEdgeCandidates) THEN << >>
  ELSE (IF k \in S THEN <<ViewEdgeCandidates[k]>> ELSE << >>) \o PickViewEdges(k + 1, S)

ViewDocs ==
  { [nodes |-> DocNodes, edges |-> ViewEdgesFixed \o PickViewEdges(1, S)] :
      S \in SUBSET (DOMAIN ViewEdgeCandidates) }

\* ------------------------------------------------------------------------
\* The explorer, step by step
\* ------------------------------------------------------------------------
NoMap == [x \in {} |-> 0]

\* a set of elements: node ids and positions in cy.edges
NoEls == [nodes |-> {}, edges |-> {}]

\* no element carries a class; the checkbox is checked in the page as served
DisplayOff ==
  /\ focusOnly = TRUE
  /\ hiddenEl = NoEls
  /\ dim = NoEls
  /\ size = NoMap
  /\ fsize = NoMap
  /\ found = "none"

\* cy is null, the selector has no option, no tab was activated
InitOff ==
  /\ rootOptions = << >>
  /\ created = 0
  /\ populated = 0
  /\ inits = [i \in 1..MaxActivations |-> "none"]

ExplorerOff ==
  /\ DisplayOff
  /\ InitOff
  /\ graphDoc = EmptyGraph
  /\ cy = EmptyGraph
  /\ xpc = "off"
  /\ rootId = SiteId
  /\ maxDepth = 0
  /\ keep = {}
  /\ depthMap = NoMap
  /\ frontier = << >>
  /\ next = << >>
  /\ d = 0
  /\ pos = 1
  /\ setCount = NoMap
  /\ expandCount = NoMap

BuilderOff ==
  /\ entries = << >>
  /\ maxImages = 0
  /\ pc = "off"
  /\ cursor = 1
  /\ nodes = << >>
  /\ edges = << >>
  /\ nodeIds = {}
  /\ categories = {}
  /\ dates = {}
  /\ assetHosts = {}
  /\ assetsMap = NoAssets
  /\ graphJson = EmptyGraph
  /\ run = 1
  /\ firstGraph = EmptyGraph

\* cy.nodes("[kind='site']")[0] || cy.nodes()[0] on the graph g: the id, as
\* a sequence that is empty when g has no node
SiteOf(g) ==
  LET sites == SelectSeq(g.nodes, LAMBDA n : n.kind = "site")
  IN IF sites # << >> THEN <<sites[1].id>>
     ELSE IF g.nodes # << >> THEN <<g.nodes[1].id>>
     ELSE << >>

NodeIn(g, id) == g.nodes[CHOOSE k \in DOMAIN g.nodes : g.nodes[k].id = id]

\* site.connectedEdges().connectedNodes() without the site: the other ends
\* of the edges at the site, each once, in the order of the edges
RECURSIVE Direct(_, _, _, _)
Direct(g, site, k, acc) ==
  IF k > Len(g.edges) THEN acc
  ELSE LET e == g.edges[k]
           ends == IF e.source = site THEN <<e.target>>
                   ELSE IF e.target = site THEN <<e.source>>
                   ELSE << >>
           new == SelectSeq(ends, LAMBDA x : x # site /\ x \notin Range(acc))
       IN Direct(g, site, k + 1, acc \o new)

\* the candidates in the order they were inserted
SortByLabel_asInserted(g, ids) == ids

\* Array.prototype.sort with localeCompare on the labels (a stable sort)
RECURSIVE SortByLabel(_, _)
SortByLabel(g, ids) ==
  IF ids = << >> THEN << >>
  ELSE LET before == SortByLabel(g, SubSeq(ids, 1, Len(ids) - 1))
           x == ids[Len(ids)]
           Stays(y) == ~StrLess(NodeIn(g, x).label, NodeIn(g, y).label)
           Moves(y) == StrLess(NodeIn(g, x).label, NodeIn(g, y).label)
       IN SelectSeq(before, Stays) \o <<x>> \o SelectSeq(before, Moves)

\* every direct neighbour that is no placeholder is a candidate
Candidates_anyKind(g) ==
  IF SiteOf(g) = << >> THEN << >>
  ELSE SelectSeq(Direct(g, SiteOf(g)[1], 1, << >>),
                 LAMBDA id : ~PLACEHOLDER_LABEL_RE(NodeIn(g, id).label))

\* populateFeatureRoots: the entries of the candidates map; no label of the
\* documents is empty, so the label is never replaced by the id
Candidates(g) ==
  IF SiteOf(g) = << >> THEN << >>
  ELSE SelectSeq(Direct(g, SiteOf(g)[1], 1, << >>),
                 LAMBDA id : /\ ~PLACEHOLDER_LABEL_RE(NodeIn(g, id).label)
                             /\ NodeIn(g, id).kind = "section")

\* populateFeatureRoots: the options the selector holds afterwards
populateFeatureRoots(g, options) ==
  IF SiteOf(g) = << >> THEN options ELSE SortByLabel(g, Candidates(g))

\* initThought from "cy = cytoscape(...)" on: the document is filtered and
\* handed to the graph library, every node gets the plain size, the root
\* selector is filled.  applyThoughtDisplay, called last, finds the display
\* selector on "source" as served: layoutSource removes classes no element
\* has and sets the sizes the nodes already have.
CreateGraph ==
  LET g == [nodes |-> ImportNodes(graphDoc), edges |-> ImportEdges(graphDoc)]
      ids == { g.nodes[k].id : k \in DOMAIN g.nodes }
  IN /\ cy' = g
     /\ created' = created + 1
     /\ size' = [n \in ids |-> PLAIN_SIZE]
     /\ fsize' = [n \in ids |-> PLAIN_FONT]
     /\ hiddenEl' = NoEls
     /\ dim' = NoEls
     /\ rootOptions' = populateFeatureRoots(g, rootOptions)
     /\ populated' = populated + 1
     /\ UNCHANGED << focusOnly, found >>

\* initThought: graph.json is fetched, filtered and handed to the graph library
LoadGraph ==
  /\ xpc = "boot"
  /\ CreateGraph
  /\ xpc' = "idle"
  /\ UNCHANGED << graphDoc, rootId, maxDepth, keep, depthMap, frontier, next, d, pos,
                  setCount, expandCount, inits >>
  /\ UNCHANGED bvars

\* --- initThought call by call: each activation of the Thought Map tab
\* calls initThought, which tests cy, awaits the library, awaits graph.json
\* and only then assigns cy ---
InitsFrame ==
  UNCHANGED << graphDoc, cy, xpc, rootId, maxDepth, keep, depthMap, frontier, next,
               d, pos, setCount, expandCount, dvars, rootOptions, created, populated >>

\* setTab("thought"): initThought starts; "if (cy) return;" ends it when a
\* graph instance exists, else it goes on to await loadCytoscape().
\* Activations are numbered in the order they are made.
SetTabThought(i) ==
  /\ inits[i] = "none"
  /\ \A j \in 1..(i - 1) : inits[j] # "none"
  /\ inits' = [inits EXCEPT ![i] = IF created > 0 THEN "returned" ELSE "lib"]
  /\ InitsFrame
  /\ UNCHANGED bvars

\* await loadCytoscape() resolves: the call goes on to await fetchText
LibraryLoaded(i) ==
  /\ inits[i] = "lib"
  /\ inits' = [inits EXCEPT ![i] = "fetch"]
  /\ InitsFrame
  /\ UNCHANGED bvars

\* await fetchText("graph.json") resolves: the rest of initThought runs
GraphFetched(i) ==
  /\ inits[i] = "fetch"
  /\ CreateGraph
  /\ inits' = [inits EXCEPT ![i] = "ready"]
  /\ xpc' = "idle"
  /\ UNCHANGED << graphDoc, rootId, maxDepth, keep, depthMap, frontier, next, d, pos,
                  setCount, expandCount >>
  /\ UNCHANGED bvars

\* one of the two awaits rejects: the catch branch shows the error
InitFailed(i) ==
  /\ inits[i] \in {"lib", "fetch"}
  /\ inits' = [inits EXCEPT ![i] = "failed"]
  /\ InitsFrame
  /\ UNCHANGED bvars

\* initThought: graph.json, as the builder wrote it, is fetched and parsed.
\* JSON.stringify leaves out the undefined fields and JSON.parse gives objects
\* without them, which is how a record holds them here.
FetchGraph ==
  /\ pc = "done"
  /\ xpc = "off"
  /\ graphDoc' = graphJson
  /\ xpc' = "boot"
  /\ UNCHANGED << cy, rootId, maxDepth, keep, depthMap, frontier, next, d, pos,
                  setCount, expandCount >>
  /\ UNCHANGED dvars
  /\ UNCHANGED ivars
  /\ UNCHANGED bvars

\* the roots an extraction is asked for: the root selector offers no node
\* that isPlaceholderNode matches
Roots == { id \in CyIds : ~isPlaceholderNode(CyNode(id)) }

\* bfsUndirectedWithDepth(r, depth) is entered: its first four statements
\* and the first test of the loop condition
StartExtract(r, depth) ==
  /\ xpc = "idle"
  /\ rootId' = r
  /\ maxDepth' = depth
  /\ keep' = {r}
  /\ depthMap' = MapSet(NoMap, r, 0)
  /\ setCount' = Bump(NoMap, r)
  /\ expandCount' = NoMap
  /\ frontier' = <<r>>
  /\ next' = << >>
  /\ d' = 0
  /\ pos' = 1
  /\ xpc' = IF LoopGoesOn(0, depth) THEN "expand" ELSE "done"
  /\ UNCHANGED << graphDoc, cy >>
  /\ UNCHANGED dvars
  /\ UNCHANGED ivars
  /\ UNCHANGED bvars

\* bfsUndirectedWithDepth returns { keep, depthMap }: its locals are gone and
\* the explorer waits for the next interaction
Return ==
  /\ xpc = "done"
  /\ xpc' = "idle"
  /\ rootId' = SiteId
  /\ maxDepth' = 0
  /\ keep' = {}
  /\ depthMap' = NoMap
  /\ frontier' = << >>
  /\ next' = << >>
  /\ d' = 0
  /\ pos' = 1
  /\ setCount' = NoMap
  /\ expandCount' = NoMap
  /\ UNCHANGED << graphDoc, cy >>
  /\ UNCHANGED dvars
  /\ UNCHANGED ivars
  /\ UNCHANGED bvars

\* one iteration of "for (const id of frontier)"; after the last id of the
\* layer, the end of the iteration of the outer loop
ExpandNode ==
  /\ xpc = "expand"
  /\ LET id == frontier[pos]
         st == [keep |-> keep, depthMap |-> depthMap, next |-> next,
                setCount |-> setCount]
         skip == id \notin CyIds \/ isPlaceholderNode(CyNode(id))
         after == IF skip THEN st ELSE VisitEdges(st, id, ConnectedEdges(id))
     IN /\ keep' = after.keep
        /\ depthMap' = after.depthMap
        /\ setCount' = after.setCount
        /\ expandCount' = IF skip THEN expandCount ELSE Bump(expandCount, id)
        /\ IF pos < Len(frontier)
             THEN /\ pos' = pos + 1
                  /\ next' = after.next
                  /\ UNCHANGED << frontier, d, xpc >>
             ELSE /\ pos' = 1
                  /\ frontier' = after.next
                  /\ next' = << >>
                  /\ d' = d + 1
                  /\ xpc' = IF after.next = << >> THEN "done"
                            ELSE IF LoopGoesOn(d + 1, maxDepth) THEN "expand"
                            ELSE "done"
  /\ UNCHANGED << graphDoc, cy, rootId, maxDepth >>
  /\ UNCHANGED dvars
  /\ UNCHANGED ivars
  /\ UNCHANGED bvars

\* cy.elements()
AllEls == [nodes |-> CyIds, edges |-> DOMAIN cy.edges]

ElsMinus(a, b) == [nodes |-> a.nodes \ b.nodes, edges |-> a.edges \ b.edges]

ElsPlus(a, b) == [nodes |-> a.nodes \cup b.nodes, edges |-> a.edges \cup b.edges]

\* an edge stays when either endpoint is kept
KeepEls_eitherEnd(k) ==
  [nodes |-> CyIds \cap k,
   edges |-> { i \in DOMAIN cy.edges :
                 cy.edges[i].source \in k \/ cy.edges[i].target \in k }]

\* layoutFeatures: keepEls, "edges: keep only if both endpoints are in keep"
KeepEls(k) ==
  [nodes |-> CyIds \cap k,
   edges |-> { i \in DOMAIN cy.edges :
                 cy.edges[i].source \in k /\ cy.edges[i].target \in k }]

\* the classes the elements carry
Marks ==
  IF hiddenEl # NoEls THEN "hidden" ELSE IF dim # NoEls THEN "dimmed" ELSE "none"

RECURSIVE IntPow(_, _)
IntPow(b, k) == IF k = 0 THEN 1 ELSE b * IntPow(b, k - 1)

\* Math.round(base * Math.pow(RATIO, k)): the nearest integer, halves up.
\* No value at the depths the documents allow is near a half, so the
\* floating-point result is the exact one.
Scaled(base, k) ==
  (2 * base * IntPow(RATIO_NUM, k) + IntPow(RATIO_DEN, k)) \div (2 * IntPow(RATIO_DEN, k))

\* the label size without "if (fs < MIN_FONT) fs = MIN_FONT"
FontAt_noFloor(id, k, root) ==
  IF id = root THEN BASE_FONT ELSE Scaled(BASE_FONT, k)

\* applyDepthScaling: sz of a node of keep at depth k
SizeAt(id, k, root) ==
  LET sz == IF id = root THEN BASE ELSE Scaled(BASE, k)
  IN IF sz < MIN THEN MIN ELSE sz

\* applyDepthScaling: fs of a node of keep at depth k
FontAt(id, k, root) ==
  LET fs == IF id = root THEN BASE_FONT ELSE Scaled(BASE_FONT, k)
  IN IF fs < MIN_FONT THEN MIN_FONT ELSE fs

\* depthMap.get(id) ?? 0
DepthOf(dm, id) == IF id \in DOMAIN dm THEN dm[id] ELSE 0

\* the elements the context branch leaves dimmed when the test on the
\* edges looks at the source only
DimEls_sourceOnly(k) ==
  [nodes |-> CyIds \ k,
   edges |-> { i \in DOMAIN cy.edges : cy.edges[i].source \notin k }]

\* layoutFeatures, context branch: every element is dimmed, the nodes of
\* keep and the edges with both ends in keep are restored
DimEls(k) ==
  [nodes |-> CyIds \ k,
   edges |-> { i \in DOMAIN cy.edges :
                 ~(cy.edges[i].source \in k /\ cy.edges[i].target \in k) }]

\* cy.elements().removeClass(...): what is left of a class
RemoveClass_kept(els) == els

RemoveClass(els) == ElsMinus(els, AllEls)

\* layoutFeatures after bfsUndirectedWithDepth has returned: the checkbox is
\* read, both classes are removed from every element, and the elements
\* outside keep are hidden (focus only) or dimmed (context)
ApplyPolicy(checked) ==
  /\ xpc = "done"
  /\ focusOnly' = checked
  /\ LET clearedHidden == RemoveClass(hiddenEl)
         clearedDim == RemoveClass(dim)
     IN IF checked
          THEN /\ hiddenEl' = ElsPlus(clearedHidden, ElsMinus(AllEls, KeepEls(keep)))
               /\ dim' = clearedDim
          ELSE /\ hiddenEl' = clearedHidden
               /\ dim' = ElsPlus(ElsMinus(clearedDim, AllEls), DimEls(keep))
  /\ size' = [n \in CyIds |->
               IF n \notin keep THEN OUTSIDE_SIZE
               ELSE SizeAt(n, DepthOf(depthMap, n), rootId)]
  /\ fsize' = [n \in CyIds |->
                IF n \notin keep THEN OUTSIDE_FONT
                ELSE FontAt(n, DepthOf(depthMap, n), rootId)]
  /\ found' = Marks
  /\ xpc' = "shown"
  /\ UNCHANGED << graphDoc, cy, rootId, maxDepth, keep, depthMap, frontier, next, d,
                  pos, setCount, expandCount >>
  /\ UNCHANGED ivars
  /\ UNCHANGED bvars

\* applyThoughtDisplay with the display selector on "source": layoutSource
\* shows the full graph
LayoutSource ==
  /\ xpc = "idle"
  /\ hiddenEl' = RemoveClass(hiddenEl)
  /\ dim' = RemoveClass(dim)
  /\ size' = [n \in CyIds |-> PLAIN_SIZE]
  /\ fsize' = [n \in CyIds |-> PLAIN_FONT]
  /\ found' = Marks
  /\ xpc' = "source"
  /\ UNCHANGED << graphDoc, cy, rootId, maxDepth, keep, depthMap, frontier, next, d,
                  pos, setCount, expandCount, focusOnly >>
  /\ UNCHANGED ivars
  /\ UNCHANGED bvars

\* layoutFeatures or layoutSource returns: keep and depthMap are gone, the
\* classes and the sizes stay on the elements until the next request
Finish ==
  /\ xpc \in {"shown", "source"}
  /\ xpc' = "idle"
  /\ rootId' = SiteId
  /\ maxDepth' = 0
  /\ keep' = {}
  /\ depthMap' = NoMap
  /\ frontier' = << >>
  /\ next' = << >>
  /\ d' = 0
  /\ pos' = 1
  /\ setCount' = NoMap
  /\ expandCount' = NoMap
  /\ found' = "none"
  /\ UNCHANGED << graphDoc, cy, focusOnly, hiddenEl, dim, size, fsize >>
  /\ UNCHANGED ivars
  /\ UNCHANGED bvars

\* ------------------------------------------------------------------------
\* Specifications
\* ------------------------------------------------------------------------
Next ==
  \/ WriteAssets
  \/ CreateSite
  \/ CreateSections
  \/ Collect
  \/ CreateTypeNodes
  \/ CreateCategoryNodes
  \/ CreateDateNodes
  \/ CreateAssetHostNodes
  \/ CreatePage
  \/ WriteGraph
  \/ Rerun

Init == BuilderInit /\ ExplorerOff

Spec == Init /\ [][Next]_vars

\* the explorer run on a graph.json document
InitExplore ==
  /\ BuilderOff
  /\ DisplayOff
  /\ InitOff
  /\ graphDoc \in GraphDocs
  /\ cy = EmptyGraph
  /\ xpc = "boot"
  /\ rootId = SiteId
  /\ maxDepth = 0
  /\ keep = {}
  /\ depthMap = NoMap
  /\ frontier = << >>
  /\ next = << >>
  /\ d = 0
  /\ pos = 1
  /\ setCount = NoMap
  /\ expandCount = NoMap

NextExplore ==
  \/ LoadGraph
  \/ \E r \in Roots, depth \in 0..MaxDepthBound : StartExtract(r, depth)
  \/ ExpandNode
  \/ Return

SpecExplore == InitExplore /\ [][NextExplore]_vars

\* layoutFeatures(rootId, depth) called on a loaded document, for any root
\* id and depth a request can carry
InitView ==
  /\ BuilderOff
  /\ DisplayOff
  /\ InitOff
  /\ graphDoc \in ViewDocs
  /\ cy = EmptyGraph
  /\ xpc = "boot"
  /\ rootId = SiteId
  /\ maxDepth = 0
  /\ keep = {}
  /\ depthMap = NoMap
  /\ frontier = << >>
  /\ next = << >>
  /\ d = 0
  /\ pos = 1
  /\ setCount = NoMap
  /\ expandCount = NoMap

NextView ==
  \/ LoadGraph
  \/ \E r \in CyIds \cup {X_gone}, depth \in 0..MaxViewDepth : StartExtract(r, depth)
  \/ ExpandNode
  \/ \E checked \in BOOLEAN : ApplyPolicy(checked)
  \/ LayoutSource
  \/ Finish

SpecView == InitView /\ [][NextView]_vars

\* the Thought Map tab activated several times on one served graph.json
NextTabs ==
  \E i \in 1..MaxActivations :
    \/ SetTabThought(i)
    \/ LibraryLoaded(i)
    \/ GraphFetched(i)
    \/ InitFailed(i)

SpecTabs == InitView /\ [][NextTabs]_vars

\* the builder run on a sitemap, and the explorer run on the graph.json it wrote
InitSite ==
  /\ entries \in SeqsUpTo(SiteUniverse, MaxSiteEntries)
  /\ maxImages \in 0..MaxImagesBound
  /\ pc = "assets"
  /\ cursor = 1
  /\ nodes = << >>
  /\ edges = << >>
  /\ nodeIds = {}
  /\ categories = {}
  /\ dates = {}
  /\ assetHosts = {}
  /\ assetsMap = NoAssets
  /\ graphJson = EmptyGraph
  /\ run = 1
  /\ firstGraph = EmptyGraph
  /\ ExplorerOff

NextSite ==
  \/ WriteAssets
  \/ CreateSite
  \/ CreateSections
  \/ Collect
  \/ CreateTypeNodes
  \/ CreateCategoryNodes
  \/ CreateDateNodes
  \/ CreateAssetHostNodes
  \/ CreatePage
  \/ WriteGraph
  \/ FetchGraph
  \/ LoadGraph
  \/ \E r \in Roots, depth \in 0..MaxDepthBound : StartExtract(r, depth)
  \/ ExpandNode
  \/ Return

SpecSite == InitSite /\ [][NextSite]_vars

\* the builder on a sitemap with a page titled like a group, then the
\* explorer on the graph.json it wrote
InitTitle ==
  /\ entries \in SeqsUpTo(TitleUniverse, MaxSiteEntries)
  /\ maxImages \in 0..MaxImagesBound
  /\ pc = "assets"
  /\ cursor = 1
  /\ nodes = << >>
  /\ edges = << >>
  /\ nodeIds = {}
  /\ categories = {}
  /\ dates = {}
  /\ assetHosts = {}
  /\ assetsMap = NoAssets
  /\ graphJson = EmptyGraph
  /\ run = 1
  /\ firstGraph = EmptyGraph
  /\ ExplorerOff

SpecTitle == InitTitle /\ [][NextSite]_vars

\* the builder on a sitemap of distinct URLs, then on the same sitemap in
\* another order
DistinctLocs(es) == \A a, b \in DOMAIN es : es[a].loc = es[b].loc => a = b

InitOrder ==
  /\ entries \in { es \in SeqsUpTo(OrderUniverse, MaxEntries) : DistinctLocs(es) }
  /\ maxImages \in 0..MaxImagesBound
  /\ pc = "assets"
  /\ cursor = 1
  /\ nodes = << >>
  /\ edges = << >>
  /\ nodeIds = {}
  /\ categories = {}
  /\ dates = {}
  /\ assetHosts = {}
  /\ assetsMap = NoAssets
  /\ graphJson = EmptyGraph
  /\ run = 1
  /\ firstGraph = EmptyGraph
  /\ ExplorerOff

NextOrder ==
  \/ WriteAssets
  \/ CreateSite
  \/ CreateSections
  \/ Collect
  \/ CreateTypeNodes
  \/ CreateCategoryNodes
  \/ CreateDateNodes
  \/ CreateAssetHostNodes
  \/ CreatePage
  \/ WriteGraph
  \/ Reorder

SpecOrder == InitOrder /\ [][NextOrder]_vars

\* ------------------------------------------------------------------------
\* Properties of the built graph
\* ------------------------------------------------------------------------
Built == pc = "done"

Locs == { entries[k].loc : k \in DOMAIN entries }

\* the first entry of the list with canonical URL u
FirstEntry(u) == entries[First({ k \in DOMAIN entries : entries[k].loc = u })]

NodesOfKind(kind) == { k \in DOMAIN graphJson.nodes : graphJson.nodes[k].kind = kind }

GraphNodeIds == { graphJson.nodes[k].id : k \in DOMAIN graphJson.nodes }

HasRepeatedLoc == \E a, b \in DOMAIN entries : a # b /\ entries[a].loc = entries[b].loc

\* C1: in every built graph no two distinct edges share the same
\* (kind, source, target) triple.
C1_EdgeUniqueness ==
  Built =>
    \A a, b \in DOMAIN graphJson.edges :
      a # b =>
        << graphJson.edges[a].kind, graphJson.edges[a].source, graphJson.edges[a].target >>
          # << graphJson.edges[b].kind, graphJson.edges[b].source, graphJson.edges[b].target >>

\* C2: the built graph holds exactly one page node per distinct canonical
\* URL of the entry list, also when the list repeats canonical URLs.
C2_OnePagePerUrl ==
  Built =>
    /\ \A u \in Locs :
         Cardinality({ k \in NodesOfKind("page") : graphJson.nodes[k].url = u }) = 1
    /\ Cardinality(NodesOfKind("page")) = Cardinality(Locs)

C2_Witness == Built /\ HasRepeatedLoc /\ Cardinality(Locs) >= 2

\* C3: the images associated with a page in the build output (image nodes,
\* asset edges, asset-host related edges, assets map) are exactly those of
\* the first entry with that canonical URL.
C3_FirstOccurrenceWins ==
  Built =>
    \A u \in Locs :
      LET imgs == Slice0(FirstEntry(u).images, maxImages)
          pageId == safeId(u)
          imgNodes == { k \in NodesOfKind("image") : graphJson.nodes[k].id.key = u }
          assetEdges == { k \in DOMAIN graphJson.edges :
                            /\ graphJson.edges[k].kind = "asset"
                            /\ graphJson.edges[k].source = pageId }
          relatedEdges == { k \in DOMAIN graphJson.edges :
                              /\ graphJson.edges[k].kind = "related"
                              /\ graphJson.edges[k].target = pageId }
      IN /\ assetsMap[u] = FirstEntry(u).images
         /\ { graphJson.nodes[k].url : k \in imgNodes } = Range(imgs)
         /\ Cardinality(imgNodes) = Len(imgs)
         /\ { graphJson.edges[k].target : k \in assetEdges }
              = { ImgId(pageId, j) : j \in 1..Len(imgs) }
         /\ Cardinality(assetEdges) = Len(imgs)
         /\ { graphJson.edges[k].source : k \in relatedEdges }
              = { WithPrefix("assethost_", safeId(<<UrlHost(imgs[j])>>)) :
                    j \in { i \in DOMAIN imgs :
                              IsUrl(imgs[i]) /\ UrlHost(imgs[i]) # siteHost } }

TypeKeys == { groupKey(entries[k].loc, GROUP_DEPTH) : k \in DOMAIN entries }

CategoryKeys ==
  { extractMetadata(u).category : u \in { v \in Locs : CategoryAt(v) # {} } }

DateKeys ==
  { extractMetadata(u).dateYear \o <<"/">> \o extractMetadata(u).dateMonth :
      u \in { v \in Locs : DateAt(v) # {} } }

AllImages == UNION { Range(entries[k].images) : k \in DOMAIN entries }

HostKeys ==
  { <<UrlHost(img)>> : img \in { i \in AllImages : IsUrl(i) /\ UrlHost(i) # siteHost } }

OneNodePerKey(kind, labelTag, keys) ==
  /\ \A key \in keys :
       Cardinality({ k \in NodesOfKind(kind) :
                       graphJson.nodes[k].label = labelTag \o <<" ">> \o key }) = 1
  /\ Cardinality(NodesOfKind(kind)) = Cardinality(keys)

C5_OneGroupNodePerKey ==
  Built =>
    /\ OneNodePerKey("type", <<"type:">>, TypeKeys)
    /\ OneNodePerKey("category", <<"category:">>, CategoryKeys)
    /\ OneNodePerKey("date", <<"date:">>, DateKeys)
    /\ OneNodePerKey("asset_host", <<"asset", " ", "host:">>, HostKeys)

\* several pages share a section key and an asset host, and every dimension
\* has a group
C5_Witness ==
  /\ Built
  /\ \E a, b \in DOMAIN entries :
       /\ entries[a].loc # entries[b].loc
       /\ groupKey(entries[a].loc, GROUP_DEPTH) = groupKey(entries[b].loc, GROUP_DEPTH)
       /\ ExternalHosts(entries[a].images) \cap ExternalHosts(entries[b].images) # {}
  /\ CategoryKeys # {}
  /\ DateKeys # {}
  /\ Cardinality(HostKeys) >= 2

\* C6: in every built graph the source and the target of every edge are ids
\* of nodes of the node list.
C6_EdgesReferenceNodes ==
  Built =>
    \A k \in DOMAIN graphJson.edges :
      /\ graphJson.edges[k].source \in GraphNodeIds
      /\ graphJson.edges[k].target \in GraphNodeIds

\* a page with more images than the maximum, an unparseable URL, and edges
\* of every kind
C6_Witness ==
  /\ Built
  /\ \E k \in DOMAIN entries : maxImages >= 1 /\ Len(entries[k].images) > maxImages
  /\ \E k \in DOMAIN entries : ~IsUrl(entries[k].loc)
  /\ { graphJson.edges[k].kind : k \in DOMAIN graphJson.edges }
       = {"contains", "page", "member", "asset", "related"}

\* ------------------------------------------------------------------------
\* Properties of the subgraph extractor
\* ------------------------------------------------------------------------
Extracting == xpc \in {"expand", "done"}

Extracted == xpc = "done"

\* the ends of the edges of the graph at n, n excluded
Neighbours(n) ==
  { cy.edges[k].target : k \in { j \in DOMAIN cy.edges : cy.edges[j].source = n } }
    \cup { cy.edges[k].source : k \in { j \in DOMAIN cy.edges : cy.edges[j].target = n } }

NonPlaceholder == { id \in CyIds : ~isPlaceholderNode(CyNode(id)) }

\* the nodes at the end of a walk of exactly k edges from the root, all of
\* whose nodes are non-placeholder nodes
RECURSIVE WalkEnds(_)
WalkEnds(k) ==
  IF k = 0 THEN {rootId} \cap NonPlaceholder
  ELSE LET before == WalkEnds(k - 1)
       IN { m \in NonPlaceholder : \E n \in before : m \in Neighbours(n) }

\* C7: every node n of keep has depth[n] <= d and is the end of a path of
\* exactly depth[n] edges (undirected view) from the root whose nodes are
\* all non-placeholder nodes.
C7_DepthBoundAndPath ==
  Extracting =>
    \A n \in keep :
      /\ n \in DOMAIN depthMap
      /\ depthMap[n] <= maxDepth
      /\ n \in WalkEnds(depthMap[n])

\* a placeholder-labelled node is adjacent to a kept node, and some node is
\* kept at the full depth
C7_Witness ==
  /\ Extracted
  /\ maxDepth >= 2
  /\ \E n \in keep : depthMap[n] = maxDepth
  /\ \E n \in keep : X_odd \in Neighbours(n)

\* a step from n to m that the pruning rules admit
Admissible(n, m) ==
  /\ m \in Neighbours(n)
  /\ n \in NonPlaceholder
  /\ m \in NonPlaceholder
  /\ ~(KindOf(rootId) = "section" /\ KindOf(m) = "site")
  /\ ~(KindOf(n) = "section" /\ KindOf(m) = "section" /\ m # rootId)

\* the nodes an admissible path of at most k edges reaches from the root
RECURSIVE Within(_)
Within(k) ==
  IF k = 0 THEN {rootId}
  ELSE LET before == Within(k - 1)
       IN before \cup { m \in CyIds : \E n \in before : Admissible(n, m) }

ShortestAdmissible(n) == First({ k \in 0..maxDepth : n \in Within(k) })

\* C8: keep is exactly the set of nodes an admissible undirected path of at
\* most d edges reaches from the root, depth[n] is the length of the
\* shortest such path, each node receives its depth exactly once and is
\* expanded at most once.
C8_AgreesWithReference ==
  Extracted =>
    /\ keep = Within(maxDepth)
    /\ DOMAIN depthMap = keep
    /\ \A n \in keep : depthMap[n] = ShortestAdmissible(n)
    /\ DOMAIN setCount = keep
    /\ \A n \in keep : setCount[n] = 1
    /\ \A n \in DOMAIN expandCount : expandCount[n] <= 1

\* a kept node has two kept neighbours nearer the root or as near (a cycle
\* through the visited set), and the depth bound cuts the search
C8_Witness ==
  /\ Extracted
  /\ maxDepth >= 2
  /\ \E n \in keep :
       Cardinality({ m \in keep : depthMap[m] <= depthMap[n] /\ Admissible(m, n) }) >= 2
  /\ Within(maxDepth + 1) # Within(maxDepth)

\* C9: extract(g, root, 0) returns keep = {root} with depth[root] = 0.
C9_DepthZero ==
  (Extracted /\ maxDepth = 0) =>
    /\ keep = {rootId}
    /\ depthMap = MapSet(NoMap, rootId, 0)

C9_Witness ==
  /\ Extracted
  /\ maxDepth = 0
  /\ \E m \in CyIds : Admissible(rootId, m)

\* C10: when the root has kind section, the site node is never in keep.
C10_SiteExcluded ==
  (Extracting /\ KindOf(rootId) = "section") =>
    \A n \in keep : KindOf(n) # "site"

\* the site node is adjacent to the section root and to a kept page
C10_Witness ==
  /\ Extracted
  /\ KindOf(rootId) = "section"
  /\ SiteId \in Neighbours(rootId)
  /\ maxDepth >= 2
  /\ \E n \in keep : n # rootId /\ \E m \in Neighbours(n) : KindOf(m) = "section" /\ m # rootId

\* ------------------------------------------------------------------------
\* Properties of the explorer run on a built graph
\* ------------------------------------------------------------------------
GroupKinds == {"type", "category", "date", "asset_host"}

\* the group nodes of the document, by the kind the builder gave them
GroupingIds == { n.id : n \in { m \in Range(graphDoc.nodes) : m.kind \in GroupKinds } }

DocIds == { n.id : n \in Range(graphDoc.nodes) }

\* the ends of the edges of the document at n
DocNeighbours(n) ==
  { e.target : e \in { f \in Range(graphDoc.edges) : f.source = n } }
    \cup { e.source : e \in { f \in Range(graphDoc.edges) : f.target = n } }

\* the nodes of the document a path of at most k edges reaches from the root
\* without passing through a group node
RECURSIVE GroupFreeWithin(_)
GroupFreeWithin(k) ==
  IF k = 0 THEN {rootId} \ GroupingIds
  ELSE LET before == GroupFreeWithin(k - 1)
       IN before \cup { m \in DocIds \ GroupingIds : \E n \in before : m \in DocNeighbours(n) }

C12_NoSiblingSection ==
  (Extracting /\ KindOf(rootId) = "section") =>
    /\ \A n \in keep : KindOf(n) = "section" => n = rootId
    /\ \A n \in DOMAIN setCount : KindOf(n) = "section" => n = rootId

\* the graph has a second section, with a page of its own, and the
\* extraction from the first went two hops deep, down to an image
C12_Witness ==
  /\ Extracted
  /\ KindOf(rootId) = "section"
  /\ maxDepth >= 3
  /\ \E n \in keep : depthMap[n] = 2 /\ KindOf(n) = "image"
  /\ \E sib \in CyIds \ {rootId} :
       /\ KindOf(sib) = "section"
       /\ \E p \in Neighbours(sib) : KindOf(p) = "page"

\* the kind the document gives the node id, "" when it has no such node
DocKind(id) ==
  LET named == { n \in Range(graphDoc.nodes) : n.id = id }
  IN IF named = {} THEN "" ELSE (CHOOSE n \in named : TRUE).kind

\* the kinds of NodeKind
BuiltKinds == {"site", "section", "page", "image"} \cup GroupKinds

\* extract(graph, section node of blog, 1) has returned on the graph built
\* from the single entry /blog/2024/01/liquid-drop/ with image a.jpg
ScenarioExtracted ==
  /\ entries = << [loc |-> U_drop, images |-> <<IMG_a>>] >>
  /\ Extracted
  /\ rootId = X_blog
  /\ maxDepth = 1

\* C13: on the graph built from the single entry
\* https://ex.com/blog/2024/01/liquid-drop/ with image
\* https://cdn.ex.com/a.jpg, the extraction from the section node of blog
\* at depth 1 returns the section and the first path-segment node: not the
\* site, not the page, not the image, no date or asset-host group node.
C13_ScenarioKeep ==
  ScenarioExtracted =>
    /\ X_blog \in keep
    /\ Cardinality(keep) = 2
    /\ \A n \in keep \ {X_blog} : DocKind(n) \notin BuiltKinds
    /\ safeId(U_drop) \notin keep

\* ------------------------------------------------------------------------
\* Properties of the built graph: path segments and dates
\* ------------------------------------------------------------------------
\* the path segments of u that follow its section
SegmentsAfterSection(u) == SliceFrom(pathParts(u), GROUP_DEPTH)

SectionIdOf(u) == WithPrefix("sec_", safeId(groupKey(u, GROUP_DEPTH)))

\* C14: in the built graph the page of an entry whose path goes on after
\* the section is not attached to the section by a page edge, and the
\* section has a contains edge to a path-segment node labelled with the
\* first segment after the section (e.g. blog -> 2024 -> 01 -> liquid-drop
\* -> page).
C14_PathSegmentChain ==
  Built =>
    \A k \in DOMAIN entries :
      LET u == entries[k].loc
      IN SegmentsAfterSection(u) # << >> =>
           /\ ~ \E e \in Range(graphJson.edges) :
                  e.kind = "page" /\ e.source = SectionIdOf(u) /\ e.target = safeId(u)
           /\ \E e \in Range(graphJson.edges), n \in Range(graphJson.nodes) :
                  /\ e.kind = "contains"
                  /\ e.source = SectionIdOf(u)
                  /\ e.target = n.id
                  /\ n.kind \notin BuiltKinds
                  /\ n.label = <<SegmentsAfterSection(u)[1]>>

\* the positions j of the path segments of u where a 4-digit segment is
\* immediately followed by a 2-digit one
YearMonthAt(u) ==
  { j \in 1..(Len(pathParts(u)) - 1) :
      pathParts(u)[j] \in Digits4 /\ pathParts(u)[j + 1] \in Digits2 }

\* C15: for every entry whose URL path has a 4-digit segment immediately
\* followed by a 2-digit segment, the built graph has a date group node for
\* YYYY/MM with a member edge from it to the page node of the entry.
C15_DateGroupForYearMonth ==
  Built =>
    \A k \in DOMAIN entries :
      LET u == entries[k].loc
      IN \A j \in YearMonthAt(u) :
           LET key == <<pathParts(u)[j], "/", pathParts(u)[j + 1]>>
               gid == WithPrefix("date_", safeId(key))
           IN /\ \E n \in Range(graphJson.nodes) : n.id = gid /\ n.kind = "date"
              /\ \E e \in Range(graphJson.edges) :
                    e.kind = "member" /\ e.source = gid /\ e.target = safeId(u)

\* ------------------------------------------------------------------------
\* Properties of the requests and of the views
\* ------------------------------------------------------------------------
Loaded == xpc \notin {"off", "boot"}

\* layoutFeatures has applied the display policy for the current request
Shown == xpc = "shown"

\* C16: a request whose rootId is not a node of the graph is rejected: no
\* extraction runs or returns for it, and it leads to no view in which no
\* graph element is rendered.
C16_UnknownRootRejected ==
  (Loaded /\ rootId \notin CyIds) =>
    /\ ~Extracting
    /\ ~(Shown /\ hiddenEl.nodes = CyIds)

\* the depth of the allowed range [1,10] nearest to n
Clamp(n) == IF n < 1 THEN 1 ELSE IF n > 10 THEN 10 ELSE n

\* C17: when a request carries a depth outside [1,10], the extraction runs
\* with the nearest bound: at least one and at most ten hops are performed,
\* and keep is what the nearest bound gives.
C17_DepthClamped ==
  Extracted =>
    /\ d >= 1
    /\ d <= 10
    /\ keep = Within(Clamp(maxDepth))

\* some edge of the document names a node id that its node list lacks
HasDanglingEdge(doc) ==
  LET ids == { n.id : n \in Range(doc.nodes) }
  IN \E e \in Range(doc.edges) : e.source \notin ids \/ e.target \notin ids

\* C18: a document in which some edge references a node id that is not in
\* the node list is rejected by the import: no graph instance is made from
\* it and the explorer does not go on with it.
C18_DanglingEdgeRejected ==
  HasDanglingEdge(graphDoc) => (~Loaded /\ cy = EmptyGraph)

HasGroupLabel(n) ==
  \/ Len(n.label) >= 3 /\ n.label[1] \in {"type:", "date:", "category:"} /\ n.label[2] = " "
  \/ Len(n.label) >= 5 /\ SubSeq(n.label, 1, 4) = <<"asset", " ", "host:", " ">>

\* the nodes of the built graph an import retains, in the order written
Retained == SelectSeq(graphJson.nodes, LAMBDA n : ~HasGroupLabel(n))

C20_HideOutside ==
  (Shown /\ focusOnly) =>
    /\ \A n \in CyIds : n \in hiddenEl.nodes <=> n \notin keep
    /\ \A i \in DOMAIN cy.edges :
         i \in hiddenEl.edges <=>
           (cy.edges[i].source \notin keep \/ cy.edges[i].target \notin keep)
    /\ hiddenEl.nodes \subseteq CyIds
    /\ hiddenEl.edges \subseteq DOMAIN cy.edges
    /\ dim = NoEls

\* the policy hid an edge that has one endpoint in keep, hid a node, and
\* left another edge shown
C20_Witness ==
  /\ Shown
  /\ focusOnly
  /\ \E i \in hiddenEl.edges :
       cy.edges[i].source \in keep /\ cy.edges[i].target \notin keep
  /\ \E i \in DOMAIN cy.edges : i \notin hiddenEl.edges
  /\ hiddenEl.nodes # {}

\* C21: in dim-outside mode, after applying the policy a node is dimmed if
\* and only if it is not in keep, an edge is dimmed if and only if at least
\* one of its endpoints is not in keep, and no element is hidden.
C21_DimOutside ==
  (Shown /\ ~focusOnly) =>
    /\ \A n \in CyIds : n \in dim.nodes <=> n \notin keep
    /\ \A i \in DOMAIN cy.edges :
         i \in dim.edges <=>
           (cy.edges[i].source \notin keep \/ cy.edges[i].target \notin keep)
    /\ dim.nodes \subseteq CyIds
    /\ dim.edges \subseteq DOMAIN cy.edges
    /\ hiddenEl = NoEls

\* the policy dimmed an edge whose source alone is in keep, dimmed a node,
\* and left another edge at full opacity
C21_Witness ==
  /\ Shown
  /\ ~focusOnly
  /\ \E i \in dim.edges :
       cy.edges[i].source \in keep /\ cy.edges[i].target \notin keep
  /\ \E i \in DOMAIN cy.edges : i \notin dim.edges
  /\ dim.nodes # {}

\* ------------------------------------------------------------------------
\* Properties of the visual scale
\* ------------------------------------------------------------------------
\* max(26, round(80 * 0.84^k)) and max(8, round(12 * 0.84^k)) for k = 0..5:
\* 80, 67.2, 56.448, 47.41632, 39.8297, 33.4570 and
\* 12, 10.08, 8.4672, 7.1124, 5.9745, 5.0185
ExpectedSize == <<80, 67, 56, 47, 40, 33>>
ExpectedFont == <<12, 10, 8, 8, 8, 8>>

KeptNodes == keep \cap CyIds

C23_BackgroundSmaller ==
  Shown =>
    /\ \A n \in CyIds \ keep : size[n] = OUTSIDE_SIZE
    /\ \A n \in CyIds \ keep, m \in KeptNodes : size[n] < size[m]

\* ------------------------------------------------------------------------
\* Properties of the root selector and of the initialisation
\* ------------------------------------------------------------------------
TheSite == CHOOSE n \in CyIds : KindOf(n) = "site"

RootSectionId == WithPrefix("sec_", safeId(<<"(root)">>))

PageNodesFor(u) ==
  { k \in NodesOfKind("page") : graphJson.nodes[k].id = safeId(u) }

OutsideEdges ==
  { i \in DOMAIN cy.edges :
      cy.edges[i].source \notin keep \/ cy.edges[i].target \notin keep }

\* what layoutFeatures gives on a graph that was just loaded
FreshFeatures ==
  [hiddenEl |-> IF focusOnly THEN [nodes |-> CyIds \ keep, edges |-> OutsideEdges]
                ELSE NoEls,
   dim |-> IF focusOnly THEN NoEls
           ELSE [nodes |-> CyIds \ keep, edges |-> OutsideEdges],
   size |-> [n \in CyIds |-> IF n \in keep THEN ExpectedSize[depthMap[n] + 1] ELSE 46],
   fsize |-> [n \in CyIds |-> IF n \in keep THEN ExpectedFont[depthMap[n] + 1] ELSE 9]]

\* what layoutSource gives on a graph that was just loaded
FreshSource ==
  [hiddenEl |-> NoEls,
   dim |-> NoEls,
   size |-> [n \in CyIds |-> 54],
   fsize |-> [n \in CyIds |-> 10]]

VisualState == [hiddenEl |-> hiddenEl, dim |-> dim, size |-> size, fsize |-> fsize]

\* C26: after any sequence of interactions the nodes and the edges of the
\* loaded graph are those the import made, and the visual state of every
\* element (hidden, dimmed, size, label size) is what the last request
\* alone gives on a freshly loaded graph.
C26_LastRequestOnly ==
  /\ Loaded =>
       cy = [nodes |-> ImportNodes(graphDoc), edges |-> ImportEdges(graphDoc)]
  /\ Shown => VisualState = FreshFeatures
  /\ xpc = "source" => VisualState = FreshSource

\* a hide-outside view has been applied to elements that an earlier request
\* had left dimmed
C26_Witness ==
  /\ Shown
  /\ focusOnly
  /\ found = "dimmed"
  /\ hiddenEl.nodes # {}
  /\ hiddenEl.edges # {}
  /\ \E n \in KeptNodes : depthMap[n] = 2

\* a source view has been applied to elements that an earlier request had
\* left hidden
C26_WitnessSource ==
  /\ xpc = "source"
  /\ found = "hidden"

\* ------------------------------------------------------------------------
\* Properties of the builder across inputs
\* ------------------------------------------------------------------------
\* the nodes of a document as a set of (id, kind, label), and its edges as a
\* set
NodeSet(doc) ==
  { [id |-> doc.nodes[k].id, kind |-> doc.nodes[k].kind, label |-> doc.nodes[k].label] :
      k \in DOMAIN doc.nodes }

EdgeSet(doc) == Range(doc.edges)

\* C27: two entry lists of distinct URLs that are permutations of each other
\* give the same set of nodes (ids, kinds, labels) and the same set of edges.
C27_OrderIndependent ==
  (run = 2 /\ Built) =>
     /\ NodeSet(graphJson) = NodeSet(firstGraph)
     /\ EdgeSet(graphJson) = EdgeSet(firstGraph)

\* the part of the built graph the order of the entries does not reach: all
\* nodes but the site node and the asset host nodes, all edges but the related
\* ones
OrderFree(doc) ==
  [nodes |-> { n \in NodeSet(doc) : n.kind \notin {"site", "asset_host"} },
   edges |-> { e \in EdgeSet(doc) : e.kind # "related" }]

C27_OrderFreePart ==
  (run = 2 /\ Built) => OrderFree(graphJson) = OrderFree(firstGraph)

\* C29: every asset_host node of a built graph is the source of at least one
\* related edge whose target is a page node.
C29_NoOrphanAssetHost ==
  Built =>
    \A k \in NodesOfKind("asset_host") :
      \E j \in DOMAIN graphJson.edges, p \in NodesOfKind("page") :
        /\ graphJson.edges[j].kind = "related"
        /\ graphJson.edges[j].source = graphJson.nodes[k].id
        /\ graphJson.edges[j].target = graphJson.nodes[p].id

\* ------------------------------------------------------------------------
\* Properties of the pages of a built graph in the explorer
\* ------------------------------------------------------------------------
\* the page nodes of the document the explorer fetched
DocPages == { n \in Range(graphDoc.nodes) : n.kind = "page" }

\* C28: every page node of a built graph, whatever its title, survives the
\* import into the explorer and is in keep when the extraction starts from
\* its own section with depth 1.
C28_PagesSurvive ==
  /\ Loaded => \A n \in DocPages : n.id \in CyIds
  /\ (Extracted /\ maxDepth = 1) =>
       \A n \in DocPages : rootId = SectionIdOf(n.url) => n.id \in keep

\* ------------------------------------------------------------------------
\* Properties of the initialisation of the explorer
\* ------------------------------------------------------------------------
\* C30: however the activations of the Thought Map tab interleave with the
\* loading of the library and of graph.json, the graph instance is created
\* at most once and the root selector is populated at most once.
C30_CreatedOnce ==
  /\ created <= 1
  /\ populated <= 1

\* activations made one after the other: a call that starts when a graph
\* instance exists returns at once
C30_LaterCallReturns ==
  \A i \in 1..MaxActivations :
    inits[i] = "returned" => \E j \in 1..(i - 1) : inits[j] = "ready"
====
